---- MODULE Spec2Model ----
(***************************************************************************)
(* A model of the PrintLayout control (src/src/ol-print-layout-control.ts) *)
(* and of the part of its OpenLayers host that the control talks to: the   *)
(* control's map reference, the maps' control collections, views, viewport *)
(* sizes and event listeners.                                              *)
(*                                                                         *)
(* Strings are sequences of one-character strings, so that toUpperCase and *)
(* the comparisons with the ORIENTATION / PAPER_FORMAT tables are computed *)
(* rather than assumed.  Lengths are integers in tenths of a millimetre    *)
(* (25.4 mm = 254), margins are whole centimetres; the code's doubles are  *)
(* modelled by exact rational arithmetic.                                  *)
(***************************************************************************)
EXTENDS Integers, Sequences, FiniteSets, TLC

(***************************************************************************)
(* Bounds of the model                                                     *)
(***************************************************************************)
MaxRegs == 3        \* listener registrations alive at the same time
MaxOthers == 1      \* other controls in one map's control collection
MaxViews == 2       \* view objects a map is given in a run (setView)
MaxMargin == 3      \* largest margin (cm) passed to the margins setter
MaxDpi == 3         \* resolutions 0..MaxDpi, besides the named ones
MaxFactor == 4      \* factors 1..MaxFactor of the dpi scaling

(***************************************************************************)
(* Values of the host language                                             *)
(***************************************************************************)
Undefined == "undefined"
Null == "null"
NoMap == Null
Sides == {"top", "bottom", "left", "right"}

\* String.prototype.toUpperCase, character by character
UpperChar(c) ==
    CASE c = "a" -> "A" [] c = "b" -> "B" [] c = "d" -> "D" [] c = "e" -> "E"
      [] c = "f" -> "F" [] c = "i" -> "I" [] c = "l" -> "L" [] c = "n" -> "N"
      [] c = "o" -> "O" [] c = "p" -> "P" [] c = "r" -> "R" [] c = "s" -> "S"
      [] c = "t" -> "T" [] c = "c" -> "C"
      [] OTHER -> c

toUpperCase(str) == [i \in 1..Len(str) |-> UpperChar(str[i])]

\* the string literals of the source
portrait == <<"p","o","r","t","r","a","i","t">>
landscape == <<"l","a","n","d","s","c","a","p","e">>
PORTRAIT == <<"P","O","R","T","R","A","I","T">>
LANDSCAPE == <<"L","A","N","D","S","C","A","P","E">>
A4 == <<"A","4">>
A3 == <<"A","3">>
A2 == <<"A","2">>
A1 == <<"A","1">>
A0 == <<"A","0">>
LETTER == <<"L","E","T","T","E","R">>
TABLOID == <<"T","A","B","L","O","I","D">>
BROADSHEET == <<"B","R","O","A","D","S","H","E","E","T">>

\* export const ORIENTATION = {PORTRAIT: 'portrait', LANDSCAPE: 'landscape'}
ORIENTATION == (PORTRAIT :> portrait) @@ (LANDSCAPE :> landscape)

\* export const PAPER_FORMAT = {A4: 'A4', ...}
PAPER_FORMAT ==
    [k \in {A4, A3, A2, A1, A0, LETTER, TABLOID, BROADSHEET} |-> k]

INCH2MM == 254      \* 25.4 mm, in tenths of a millimetre
DEFAULT_DPI == 192

\* const PAPER_SIZE, in tenths of a millimetre
PAPER_SIZE ==
    (A4 :> [short |-> 2100, long |-> 2970]) @@
    (A3 :> [short |-> 2970, long |-> 4200]) @@
    (A2 :> [short |-> 4200, long |-> 5940]) @@
    (A1 :> [short |-> 5940, long |-> 8410]) @@
    (A0 :> [short |-> 8410, long |-> 11890]) @@
    (LETTER :> [short |-> (85 * INCH2MM) \div 10, long |-> 11 * INCH2MM]) @@
    (TABLOID :> [short |-> 11 * INCH2MM, long |-> 17 * INCH2MM]) @@
    (BROADSHEET :> [short |-> 17 * INCH2MM, long |-> 22 * INCH2MM])

\* Number.MAX_SAFE_INTEGER is 2^53 - 1; the model's integers are 32 bits wide and
\* the largest of them stands for it.  Only its order against the paper ratios
\* (all below 2) is read, see Less.
MAX_SAFE_INTEGER == 2147483647

(***************************************************************************)
(* Arguments a caller may pass: a string, a margins object, a number, or   *)
(* undefined                                                               *)
(***************************************************************************)
Str(chars) == [type |-> "string", val |-> chars]
Obj(fields) == [type |-> "object", val |-> fields]
NumArg(n) == [type |-> "number", val |-> n]
Undef == [type |-> "undefined", val |-> <<>>]

\* a number that may be NaN
Num(n) == [nan |-> FALSE, v |-> n]
NaNum == [nan |-> TRUE, v |-> 0]

(***************************************************************************)
(* The print box: pure functions of the stored configuration               *)
(***************************************************************************)
\* this.paperOrientation === ORIENTATION.PORTRAIT
IsPortrait(orientation) == orientation = ORIENTATION[PORTRAIT]

\* (margins.a + margins.b) * 10 mm; a missing field is undefined and the sum NaN
MarginSum(margins, a, b) ==
    IF {a, b} \subseteq DOMAIN margins
    THEN Num((margins[a] + margins[b]) * 100)
    ELSE NaNum

Minus(edge, sum) == IF sum.nan THEN NaNum ELSE Num(edge - sum.v)

\* getPrintBoxSizeInMM(): throws when PAPER_SIZE has no entry for the format
getPrintBoxSizeInMM(format, orientation, margins) ==
    IF format \notin DOMAIN PAPER_SIZE
    THEN [threw |-> TRUE, width |-> NaNum, height |-> NaNum]
    ELSE LET short == PAPER_SIZE[format].short
             long == PAPER_SIZE[format].long
             horizontalMarginSum == MarginSum(margins, "left", "right")
             verticalMarginSum == MarginSum(margins, "top", "bottom")
         IN  IF IsPortrait(orientation)
             THEN [threw |-> FALSE,
                   width |-> Minus(short, horizontalMarginSum),
                   height |-> Minus(long, verticalMarginSum)]
             ELSE [threw |-> FALSE,
                   width |-> Minus(long, horizontalMarginSum),
                   height |-> Minus(short, verticalMarginSum)]

\* a variant of MathRound that truncates, as Math.floor would
MathRound_Truncate(num, den) == num \div den

\* Math.round(num / den) for den > 0: the nearest integer, ties upwards
MathRound(num, den) == (2 * num + den) \div (2 * den)

\* Math.round(sizeInMM / INCH2MM * dpi)
DotsOf(size, dpi) ==
    IF size.nan THEN NaNum ELSE Num(MathRound(size.v * dpi, INCH2MM))

\* a variant of getPrintBoxSizeInDots that takes the default for every falsy
\* dpi (dpi || 192), 0 included
getPrintBoxSizeInDots_FalsyDefault(format, orientation, margins, dpiArg) ==
    LET dpi == IF dpiArg.type = "undefined" \/ dpiArg.val = 0
               THEN DEFAULT_DPI ELSE dpiArg.val
        mm == getPrintBoxSizeInMM(format, orientation, margins)
    IN  [threw |-> mm.threw,
         width |-> DotsOf(mm.width, dpi),
         height |-> DotsOf(mm.height, dpi)]

\* getPrintBoxSizeInDots(dpi = 192)
getPrintBoxSizeInDots(format, orientation, margins, dpiArg) ==
    LET dpi == IF dpiArg.type = "undefined" THEN DEFAULT_DPI ELSE dpiArg.val
        mm == getPrintBoxSizeInMM(format, orientation, margins)
    IN  [threw |-> mm.threw,
         width |-> DotsOf(mm.width, dpi),
         height |-> DotsOf(mm.height, dpi)]

(***************************************************************************)
(* State                                                                   *)
(***************************************************************************)
Maps == {"A", "B"}

VARIABLES
    orientation,    \* property 'orientation' of the control (a string)
    format,         \* property 'format'
    margins,        \* property 'margins': a function from its fields to cm
    bbox,           \* property 'bbox'
    style,          \* inline style of the element and of the print area
    _map,           \* PrintLayout._map
    map_,           \* the control's map, what getMap() returns
    controls,       \* per map: is the overlay in map.getControls(), and how
                    \* many other controls are
    view,           \* per map: identity of the view map.getView() returns
    center,         \* per map: state (centre, zoom) of that view
    size,           \* per map: map.getSize()
    viewL,          \* 'change' listeners of the overlay on views
    sizeL,          \* 'change:size' listeners of the overlay on maps
    removeL,        \* per map: once('remove') listeners on its controls
    lastOp          \* the last operation, as its caller and observers saw it

vars == <<orientation, format, margins, bbox, style, _map, map_, controls,
          view, center, size, viewL, sizeL, removeL, lastOp>>

\* the state as one record, threaded through the code of an operation;
\* threw, renders and notes collect what the operation did; over says that the
\* operation needs more registrations than MaxRegs
Cur ==
    [orientation |-> orientation, format |-> format, margins |-> margins,
     bbox |-> bbox, style |-> style, _map |-> _map, map_ |-> map_,
     controls |-> controls, view |-> view, center |-> center, size |-> size,
     viewL |-> viewL, sizeL |-> sizeL, removeL |-> removeL,
     threw |-> FALSE, renders |-> 0, notes |-> <<>>, over |-> FALSE]

\* run f unless an exception is already propagating
Then(s, f(_)) == IF s.threw THEN s ELSE f(s)

Throw(s) == [s EXCEPT !.threw = TRUE]

NullBox == [kind |-> "null"]
UndefinedBox == [kind |-> "undefined"]

(***************************************************************************)
(* Layout                                                                  *)
(***************************************************************************)
\* a / b < c / d for fractions <<a, b>>, <<c, d>> with b, d > 0
Less(x, y) ==
    IF x[1] \div x[2] # y[1] \div y[2]
    THEN x[1] \div x[2] < y[1] \div y[2]
    ELSE (x[1] % x[2]) * y[2] < (y[1] % y[2]) * x[2]

getScreenMapAspectRatio(s) ==
    IF s.map_ = NoMap THEN <<1, 1>>
    ELSE LET w == s.size[s.map_][1]
             h == s.size[s.map_][2]
         IN  IF h = 0 THEN <<MAX_SAFE_INTEGER, 1>> ELSE <<w, h>>

\* called with a format PAPER_SIZE knows
getPaperMapAspectRatio(s) ==
    LET long == PAPER_SIZE[s.format].long
        short == PAPER_SIZE[s.format].short
    IN  IF IsPortrait(s.orientation) THEN <<short, long>> ELSE <<long, short>>

getRestrictingDimension(s) ==
    IF Less(getScreenMapAspectRatio(s), getPaperMapAspectRatio(s))
    THEN "width" ELSE "height"

\* this.element.getBoundingClientRect(): what the browser lays out from the
\* element's style inside the viewport of the map that holds the element; an
\* element outside the document has an empty rectangle
ElementRect(s) ==
    IF s.map_ = NoMap
    THEN [inDocument |-> FALSE]
    ELSE [inDocument |-> TRUE, width |-> s.style.width,
          height |-> s.style.height, aspectRatio |-> s.style.aspectRatio,
          viewport |-> s.size[s.map_]]

\* getPrintMarginsInPx(): margins[key] * CM2PX_FACTOR for the fields the margins
\* have, 0 for the others; the factor is kept as the quantities it is computed from
getPrintMarginsInPx(s) ==
    LET rect == ElementRect(s)
        CM2PX_FACTOR ==
            [of |-> IF IsPortrait(s.orientation) THEN "height" ELSE "width",
             rect |-> rect, long |-> PAPER_SIZE[s.format].long]
    IN  IF rect.inDocument
        THEN [px |-> [k \in Sides |->
                        IF k \in DOMAIN s.margins THEN s.margins[k] ELSE 0],
              factor |-> CM2PX_FACTOR]
        ELSE [px |-> [k \in Sides |-> 0], factor |-> [of |-> "nothing"]]

\* setElementSize(): throws a TypeError when PAPER_SIZE has no entry for the
\* format (getPaperMapAspectRatio destructures undefined) before it writes
setElementSize(s) ==
    IF s.format \notin DOMAIN PAPER_SIZE THEN Throw(s)
    ELSE LET sized ==
                 [s EXCEPT !.style.width =
                               IF getRestrictingDimension(s) = "width"
                               THEN "80%" ELSE "",
                           !.style.height =
                               IF getRestrictingDimension(s) = "width"
                               THEN "" ELSE "80%",
                           !.style.aspectRatio = getPaperMapAspectRatio(s)]
         IN  [sized EXCEPT !.style.printArea = getPrintMarginsInPx(sized)]

(***************************************************************************)
(* Bounding box and notifications                                          *)
(***************************************************************************)
\* computeBbox(): the box is kept as the quantities it is computed from: the
\* print area's rectangle (the style, laid out in the current viewport) and the
\* map's pixel-to-coordinate transform (its view, the view's state, its size)
computeBbox(s) ==
    IF s.map_ = NoMap THEN NullBox
    ELSE [kind |-> "box", map |-> s.map_, view |-> s.view[s.map_],
          center |-> s.center[s.map_], size |-> s.size[s.map_],
          style |-> s.style]

\* what an observer of a 'change' event reads from the control
Snapshot(s) ==
    [orientation |-> s.orientation, format |-> s.format,
     margins |-> s.margins, bbox |-> s.bbox, style |-> s.style]

\* this.changed() / this.dispatchEvent('change')
changed(s) == [s EXCEPT !.notes = Append(@, Snapshot(s))]

handleBboxChange(s) == changed([s EXCEPT !.bbox = computeBbox(s)])

(***************************************************************************)
(* Attachment                                                              *)
(***************************************************************************)
LiveRegs(s) ==
    {l.id : l \in s.viewL} \cup {l.id : l \in s.sizeL} \cup
    UNION {{s.removeL[m][i] : i \in 1..Len(s.removeL[m])} : m \in Maps}

\* the identity of the closures one pass through onRender's branch creates
NewReg(s) == CHOOSE r \in 1..MaxRegs : 
                /\ r \notin LiveRegs(s)
                /\ \A q \in 1..MaxRegs : q \notin LiveRegs(s) => r <= q

\* lines 294-310: remember the map, listen to its view, to its size and, once,
\* to removals from its controls
Register(s) ==
    LET r == NewReg(s)
        m == s.map_
    IN  [s EXCEPT !._map = m,
                  !.viewL = @ \cup {[id |-> r, map |-> m, view |-> s.view[m]]},
                  !.sizeL = @ \cup {[id |-> r, map |-> m]},
                  !.removeL[m] = Append(@, r)]

\* this.set(PrintLayoutProperty.BBOX, this.computeBbox(), true)
InitBbox(s) == [s EXCEPT !.bbox = computeBbox(s)]

\* onRender(): the control's render callback; the host calls it on the
\* postrender of the control's map, so getMap() is that map
onRender(s) ==
    IF s._map \notin Maps \/ s._map # s.map_
    THEN IF 1..MaxRegs \subseteq LiveRegs(s)
         THEN [s EXCEPT !.over = TRUE]
         ELSE Then(Then(Then(Register(s), setElementSize), InitBbox), changed)
    ELSE s

\* map.renderSync(): renders a frame now; its postrender calls onRender
renderSync(s) == onRender([s EXCEPT !.renders = @ + 1])

(***************************************************************************)
(* Setters and getters                                                     *)
(***************************************************************************)
\* if (this.getMap()) { this.getMap().renderSync(); this.handleBboxChange(); }
Recompute(s) ==
    IF s.map_ # NoMap THEN Then(renderSync(s), handleBboxChange) ELSE s

\* a variant of AfterWrite that notifies before the box is recomputed
AfterWrite_NotifyFirst(s) == Then(Then(setElementSize(s), changed), Recompute)

\* what every setter does after its write (lines 91-96, 109-114, 136-141)
AfterWrite(s) == Then(Then(setElementSize(s), Recompute), changed)

\* set paperOrientation(orientation); undefined.toUpperCase() is a TypeError
SetPaperOrientation(s, arg) ==
    IF arg.type # "string" THEN Throw(s)
    ELSE IF toUpperCase(arg.val) \in DOMAIN ORIENTATION
         THEN AfterWrite([s EXCEPT !.orientation = toUpperCase(arg.val)])
         ELSE Throw(s)

\* a variant of SetPaperFormat that writes whatever string it is given
SetPaperFormat_Unchecked(s, arg) ==
    IF arg.type # "string" THEN Throw(s)
    ELSE AfterWrite([s EXCEPT !.format = toUpperCase(arg.val)])

\* set paperFormat(paperFormat)
SetPaperFormat(s, arg) ==
    IF arg.type # "string" THEN Throw(s)
    ELSE IF toUpperCase(arg.val) \in DOMAIN PAPER_FORMAT
         THEN AfterWrite([s EXCEPT !.format = toUpperCase(arg.val)])
         ELSE Throw(s)

\* for (key in margins) margins[key] = (margins[key] < 0) ? 0 : margins[key]
NoNegative(m) == [k \in DOMAIN m |-> IF m[k] < 0 THEN 0 ELSE m[k]]

\* set margins(margins)
SetMargins(s, arg) ==
    IF arg.type = "undefined" THEN s
    ELSE AfterWrite([s EXCEPT !.margins = NoNegative(arg.val)])

\* a variant of GetBbox that returns the stored box without asking for a map
GetBbox_Unguarded(s) == [s |-> s, value |-> s.bbox]

\* get bbox(): the state after the call and the value returned
GetBbox(s) ==
    IF s.map_ = NoMap THEN [s |-> s, value |-> NullBox]
    ELSE LET t == renderSync(s) IN [s |-> t, value |-> t.bbox]

\* transformExtent(this.bbox, 'EPSG:3857', 'EPSG:4326') of the second read
LonLatFrom(got) ==
    IF got.s.threw THEN [s |-> got.s, value |-> NullBox]
    ELSE [s |-> got.s, value |-> [kind |-> "lonlat", of |-> got.value]]

\* get bboxAsLonLat(): reads this.bbox twice
GetBboxAsLonLat(s) ==
    LET first == GetBbox(s)
    IN  IF first.s.threw \/ first.s.over \/ first.value.kind # "box"
        THEN [s |-> first.s, value |-> NullBox]
        ELSE LonLatFrom(GetBbox(first.s))

\* lines 180-189: distance along the lower edge over the print box's width
ScaleFrom(got) ==
    LET t == got.s
        mm == getPrintBoxSizeInMM(t.format, t.orientation, t.margins)
    IN  IF t.threw \/ mm.threw
        THEN [s |-> Throw(t), value |-> NullBox]
        ELSE [s |-> t, value |-> [kind |-> "scale", of |-> got.value,
                                  width |-> mm.width]]

\* getPrintMapScaleDenominator(): reads this.bboxAsLonLat twice
GetPrintMapScaleDenominator(s) ==
    LET first == GetBboxAsLonLat(s)
    IN  IF first.s.threw \/ first.s.over \/ first.value.kind # "lonlat"
        THEN [s |-> first.s, value |-> NullBox]
        ELSE ScaleFrom(GetBboxAsLonLat(first.s))

(***************************************************************************)
(* Events of the host                                                      *)
(***************************************************************************)
\* the once('remove') listener that registration r left on a controls collection
\* (lines 304-310); isThis: e.element === this
RemoveListener(s, r, isThis) ==
    IF ~isThis THEN s
    ELSE IF s._map \notin Maps THEN Throw(s)
    ELSE [s EXCEPT !.viewL = @ \ {[id |-> r, map |-> s._map,
                                   view |-> s.view[s._map]]},
                   !.sizeL = @ \ {[id |-> r, map |-> s._map]},
                   !._map = Null]

RECURSIVE DispatchRemove(_, _, _)
\* a 'remove' event of m's controls: the once-listeners run in the order of
\* their registration, each unregistered before it is called
DispatchRemove(s, m, isThis) ==
    IF s.threw \/ s.removeL[m] = <<>> THEN s
    ELSE DispatchRemove(
             RemoveListener([s EXCEPT !.removeL[m] = Tail(@)],
                            Head(s.removeL[m]), isThis),
             m, isThis)

\* the 'change:size' listener of lines 298-301
SizeListener(s) == Then(setElementSize(s), handleBboxChange)

RECURSIVE RunViewListeners(_, _)
\* n 'change' listeners of one view, each this.handleBboxChange.bind(this)
RunViewListeners(s, n) ==
    IF n = 0 \/ s.threw THEN s ELSE RunViewListeners(handleBboxChange(s), n - 1)

RECURSIVE RunSizeListeners(_, _)
\* n 'change:size' listeners of one map
RunSizeListeners(s, n) ==
    IF n = 0 \/ s.threw THEN s ELSE RunSizeListeners(SizeListener(s), n - 1)

MapArg(m) == [type |-> "map", val |-> m]

Commit(s, kind, arg, value) ==
    /\ ~s.over
    /\ orientation' = s.orientation
    /\ format' = s.format
    /\ margins' = s.margins
    /\ bbox' = s.bbox
    /\ style' = s.style
    /\ _map' = s._map
    /\ map_' = s.map_
    /\ controls' = s.controls
    /\ view' = s.view
    /\ center' = s.center
    /\ size' = s.size
    /\ viewL' = s.viewL
    /\ sizeL' = s.sizeL
    /\ removeL' = s.removeL
    /\ lastOp' = [kind |-> kind, arg |-> arg, threw |-> s.threw,
                  renders |-> s.renders, notes |-> s.notes, value |-> value]

\* map.addControl(overlay): the map's own 'add' listener calls
\* overlay.setMap(map), which moves the element and asks for a render
AddControl(m) ==
    /\ ~controls[m].has
    /\ Commit([Cur EXCEPT !.controls[m].has = TRUE, !.map_ = m],
              "addControl", MapArg(m), NullBox)

\* map.removeControl(overlay): the map's own 'remove' listener, registered
\* first, calls overlay.setMap(null); then the overlay's listeners run
RemoveControl(m) ==
    /\ controls[m].has
    /\ Commit(DispatchRemove([Cur EXCEPT !.controls[m].has = FALSE,
                                         !.map_ = NoMap], m, TRUE),
              "removeControl", MapArg(m), NullBox)

\* another control joins the map's controls
AddOther(m) ==
    /\ controls[m].others < MaxOthers
    /\ Commit([Cur EXCEPT !.controls[m].others = @ + 1],
              "addOther", MapArg(m), NullBox)

\* another control is removed from the map's controls
RemoveOther(m) ==
    /\ controls[m].others > 0
    /\ Commit(DispatchRemove([Cur EXCEPT !.controls[m].others = @ - 1],
                             m, FALSE),
              "removeOther", MapArg(m), NullBox)

\* the map of the control renders a frame
Render(m) ==
    /\ map_ = m
    /\ Commit(onRender(Cur), "render", MapArg(m), NullBox)

\* the view v of map m fires 'change'; a change of the map's current view is a
\* pan or zoom to the state c
ViewChange(m, v, c) ==
    /\ v \in 1..view[m]
    /\ IF v = view[m] THEN c # center[m] ELSE c = 0
    /\ LET moved == IF v = view[m] THEN [Cur EXCEPT !.center[m] = c] ELSE Cur
           n == Cardinality({l \in viewL : l.map = m /\ l.view = v})
       IN  Commit(RunViewListeners(moved, n),
                  "viewChange", [type |-> "view", val |-> <<m, v>>], NullBox)

\* map.setView(new View(...))
SetView(m) ==
    /\ view[m] < MaxViews
    /\ Commit([Cur EXCEPT !.view[m] = @ + 1, !.center[m] = 0],
              "setView", MapArg(m), NullBox)

\* the viewport of map m gets the size sz; the map fires 'change:size'
Resize(m, sz) ==
    /\ sz # size[m]
    /\ LET n == Cardinality({l \in sizeL : l.map = m})
       IN  Commit(RunSizeListeners([Cur EXCEPT !.size[m] = sz], n),
                  "resize", MapArg(m), NullBox)

(***************************************************************************)
(* Calls of the application                                                *)
(***************************************************************************)
AssignPaperOrientation(arg) ==
    Commit(SetPaperOrientation(Cur, arg), "paperOrientation", arg, NullBox)

AssignPaperFormat(arg) ==
    Commit(SetPaperFormat(Cur, arg), "paperFormat", arg, NullBox)

AssignMargins(arg) ==
    Commit(SetMargins(Cur, arg), "margins", arg, NullBox)

ReadBbox ==
    LET got == GetBbox(Cur)
    IN  Commit(got.s, "bbox", Undef, got.value)

ReadBboxAsLonLat ==
    LET got == GetBboxAsLonLat(Cur)
    IN  Commit(got.s, "bboxAsLonLat", Undef, got.value)

ReadPrintMapScaleDenominator ==
    LET got == GetPrintMapScaleDenominator(Cur)
    IN  Commit(got.s, "getPrintMapScaleDenominator", Undef, got.value)

ReadPrintBoxSizeInMM ==
    LET mm == getPrintBoxSizeInMM(format, orientation, margins)
    IN  Commit([Cur EXCEPT !.threw = mm.threw], "getPrintBoxSizeInMM", Undef,
               [kind |-> "size", width |-> mm.width, height |-> mm.height])

ReadPrintBoxSizeInDots(dpiArg) ==
    LET dots == getPrintBoxSizeInDots(format, orientation, margins, dpiArg)
    IN  Commit([Cur EXCEPT !.threw = dots.threw], "getPrintBoxSizeInDots",
               dpiArg,
               [kind |-> "size", width |-> dots.width, height |-> dots.height])

(***************************************************************************)
(* Construction                                                            *)
(***************************************************************************)
Centers == {0, 1}
Sizes == {<<2, 3>>, <<4, 3>>, <<3, 0>>}
InitialSize == <<4, 3>>

\* constructor(opt_options): options.x || default, stored as given; the host's
\* maps start with their default controls, one view and a viewport
Construct(orientationOpt, formatOpt, marginsOpt) ==
    /\ orientation = IF orientationOpt.type = "undefined"
                     THEN ORIENTATION[PORTRAIT] ELSE orientationOpt.val
    /\ format = IF formatOpt.type = "undefined"
                THEN PAPER_FORMAT[A4] ELSE formatOpt.val
    /\ margins = IF marginsOpt.type = "undefined"
                 THEN [top |-> 2, bottom |-> 2, left |-> 2, right |-> 2]
                 ELSE marginsOpt.val
    /\ bbox = UndefinedBox
    /\ style = [width |-> "", height |-> "", aspectRatio |-> <<0, 0>>,
                printArea |-> [px |-> [k \in Sides |-> 0],
                               factor |-> [of |-> "unset"]]]
    /\ _map = Undefined
    /\ map_ = NoMap
    /\ controls = [m \in Maps |-> [has |-> FALSE, others |-> MaxOthers]]
    /\ view = [m \in Maps |-> 1]
    /\ center = [m \in Maps |-> 0]
    /\ size = [m \in Maps |-> InitialSize]
    /\ viewL = {}
    /\ sizeL = {}
    /\ removeL = [m \in Maps |-> <<>>]
    /\ lastOp = [kind |-> "constructor", arg |-> Undef, threw |-> FALSE,
                 renders |-> 0, notes |-> <<>>, value |-> NullBox]

Landscape == <<"L","a","n","d","s","c","a","p","e">>
a3 == <<"a","3">>
letter == <<"l","e","t","t","e","r">>
A5 == <<"A","5">>
up == <<"u","p">>

(***************************************************************************)
(* Spec: the overlay's life on two maps                                    *)
(***************************************************************************)
Init == Construct(Undef, Undef, Undef)

Next ==
    \/ \E m \in Maps : AddControl(m)
    \/ \E m \in Maps : RemoveControl(m)
    \/ \E m \in Maps : AddOther(m)
    \/ \E m \in Maps : RemoveOther(m)
    \/ \E m \in Maps : Render(m)
    \/ \E m \in Maps, c \in Centers : ViewChange(m, view[m], c)
    \/ ReadBbox
    \/ ReadBboxAsLonLat
    \/ ReadPrintMapScaleDenominator

Spec == Init /\ [][Next]_vars

(***************************************************************************)
(* SpecView: the overlay on one map whose view is replaced or moved         *)
(***************************************************************************)
NextView ==
    \/ AddControl("A")
    \/ RemoveControl("A")
    \/ AddOther("A")
    \/ RemoveOther("A")
    \/ Render("A")
    \/ SetView("A")
    \/ \E v \in 1..MaxViews, c \in Centers : ViewChange("A", v, c)
    \/ \E sz \in Sizes : Resize("A", sz)
    \/ ReadBbox

SpecView == Init /\ [][NextView]_vars

(***************************************************************************)
(* SpecConfig: configuration changes of an overlay on one map              *)
(***************************************************************************)
ConfigOrientations == {Undef, Str(portrait), Str(Landscape), Str(up)}
ConfigFormats == {Undef, Str(a3), Str(LETTER), Str(A5)}
ConfigMargins ==
    {Undef, Obj([top |-> 1, bottom |-> 0, left |-> -1, right |-> 3]),
     Obj([top |-> 1])}

InitConfig ==
    \E f \in {Undef, Str(a3)} : Construct(Undef, f, Undef)

NextConfig ==
    \/ AddControl("A")
    \/ RemoveControl("A")
    \/ Render("A")
    \/ \E sz \in Sizes : Resize("A", sz)
    \/ ReadBbox
    \/ \E arg \in ConfigOrientations : AssignPaperOrientation(arg)
    \/ \E arg \in ConfigFormats : AssignPaperFormat(arg)
    \/ \E arg \in ConfigMargins : AssignMargins(arg)

SpecConfig == InitConfig /\ [][NextConfig]_vars

(***************************************************************************)
(* SpecCalc: the print box of an overlay without a map                     *)
(***************************************************************************)
CalcOrientations ==
    {Undef, Str(portrait), Str(landscape), Str(PORTRAIT), Str(Landscape),
     Str(up), Str(<<>>)}
CalcFormats ==
    {Undef, Str(a3), Str(letter), Str(A5), Str(portrait)} \cup
    {Str(PAPER_FORMAT[k]) : k \in DOMAIN PAPER_FORMAT}
FullMargins == [Sides -> {-1, 0, MaxMargin}]
PartialMargins ==
    UNION {[d -> {-1, MaxMargin}] : d \in {{}, {"top"}, {"top", "bottom", "left"}}}
CalcMargins == {Undef} \cup {Obj(m) : m \in FullMargins \cup PartialMargins}
Dpis == {Undef} \cup {NumArg(d) : d \in (0..MaxDpi) \cup {96, DEFAULT_DPI}}

InitCalc ==
    \E o \in {Undef, Str(landscape), Str(Landscape)},
       f \in {Undef, Str(a3), Str(LETTER)},
       m \in {Undef, Obj([top |-> -1, bottom |-> 0, left |-> 1, right |-> 1])} :
        Construct(o, f, m)

NextCalc ==
    \/ \E arg \in CalcOrientations : AssignPaperOrientation(arg)
    \/ \E arg \in CalcFormats : AssignPaperFormat(arg)
    \/ \E arg \in CalcMargins : AssignMargins(arg)
    \/ ReadPrintBoxSizeInMM
    \/ \E dpi \in Dpis : ReadPrintBoxSizeInDots(dpi)

SpecCalc == InitCalc /\ [][NextCalc]_vars

(***************************************************************************)
(* Claims                                                                  *)
(***************************************************************************)
OverlayState ==
    <<orientation, format, margins, bbox, style, _map, map_, controls, view,
      center, size, viewL, sizeL, removeL>>

\* C1 (Spec): on no map does the overlay ever have more than one view-change
\* listener or more than one viewport-size listener.
C1_OneListenerPerHost ==
    \A m \in Maps :
        /\ Cardinality({l \in viewL : l.map = m}) <= 1
        /\ Cardinality({l \in sizeL : l.map = m}) <= 1

\* C2 (Spec): after the overlay has been removed from the controls of a map, no
\* listener of the overlay is left on that map or its view and _map no longer
\* refers to it.
C2_DetachCleansUp ==
    lastOp.kind = "removeControl" =>
        /\ {l \in viewL : l.map = lastOp.arg.val} = {}
        /\ {l \in sizeL : l.map = lastOp.arg.val} = {}
        /\ _map # lastOp.arg.val

\* a string equals, letter case ignored, one of the values of the table
MatchesValueOf(table, arg) ==
    /\ arg.type = "string"
    /\ \E k \in DOMAIN table : toUpperCase(arg.val) = toUpperCase(table[k])

\* C3 (SpecConfig): an assignment to paperOrientation or paperFormat of a value
\* that matches no known orientation or format throws and leaves the whole
\* state as it was, forces no render and emits no change notification.
C3_InvalidValueRejected ==
    [][ ( \/ /\ lastOp'.kind = "paperOrientation"
             /\ ~MatchesValueOf(ORIENTATION, lastOp'.arg)
          \/ /\ lastOp'.kind = "paperFormat"
             /\ ~MatchesValueOf(PAPER_FORMAT, lastOp'.arg) )
        => /\ lastOp'.threw
           /\ UNCHANGED OverlayState
           /\ lastOp'.renders = 0
           /\ lastOp'.notes = <<>> ]_vars

C3_Witness ==
    /\ lastOp.kind = "paperFormat"
    /\ lastOp.arg = Str(A5)
    /\ lastOp.threw
    /\ map_ = "A"
    /\ _map = "A"
    /\ bbox.kind = "box"

\* C4 (SpecCalc): after a successful paperOrientation assignment the print box
\* is short x long minus the margins when portrait was assigned and long x short
\* minus the margins when landscape was.
C4_OrientationDecidesEdges ==
    ( /\ lastOp.kind = "paperOrientation"
      /\ ~lastOp.threw
      /\ DOMAIN margins = Sides ) =>
        LET mm == getPrintBoxSizeInMM(format, orientation, margins)
            horizontal == 100 * (margins.left + margins.right)
            vertical == 100 * (margins.top + margins.bottom)
            short == PAPER_SIZE[format].short
            long == PAPER_SIZE[format].long
        IN  IF toUpperCase(lastOp.arg.val) = toUpperCase(portrait)
            THEN /\ mm.width = Num(short - horizontal)
                 /\ mm.height = Num(long - vertical)
            ELSE /\ mm.width = Num(long - horizontal)
                 /\ mm.height = Num(short - vertical)

\* C5 (Spec): whenever the overlay has no map, bbox, bboxAsLonLat and
\* getPrintMapScaleDenominator return null and do not throw, whatever box is
\* stored.
C5_NullWithoutMap ==
    map_ = NoMap =>
        /\ GetBbox(Cur).value = NullBox
        /\ ~GetBbox(Cur).s.threw
        /\ GetBboxAsLonLat(Cur).value = NullBox
        /\ ~GetBboxAsLonLat(Cur).s.threw
        /\ GetPrintMapScaleDenominator(Cur).value = NullBox
        /\ ~GetPrintMapScaleDenominator(Cur).s.threw
        /\ ( lastOp.kind \in {"bbox", "bboxAsLonLat",
                             "getPrintMapScaleDenominator"}
             => lastOp.value = NullBox /\ ~lastOp.threw )

C5_Witness ==
    /\ map_ = NoMap
    /\ bbox.kind = "box"
    /\ lastOp.kind = "getPrintMapScaleDenominator"

\* the configuration an assignment asks for, seen in an observer's snapshot
WrittenIn(note, op) ==
    CASE op.kind = "paperOrientation" ->
            /\ MatchesValueOf(ORIENTATION, op.arg)
            /\ toUpperCase(note.orientation) = toUpperCase(op.arg.val)
      [] op.kind = "paperFormat" ->
            /\ MatchesValueOf(PAPER_FORMAT, op.arg)
            /\ toUpperCase(note.format) = toUpperCase(op.arg.val)
      [] op.kind = "margins" ->
            /\ DOMAIN note.margins = DOMAIN op.arg.val
            /\ \A k \in DOMAIN op.arg.val :
                   /\ note.margins[k] >= 0
                   /\ note.margins[k] >= op.arg.val[k]
                   /\ note.margins[k] \in {0, op.arg.val[k]}

\* C6 (SpecConfig): a successful assignment to paperFormat, paperOrientation or
\* margins notifies at least once, and at each of its 'change' notifications
\* the written configuration, the layout made for it and, with a map, the box
\* computed after that layout and the one forced render are in place; without
\* a map nothing is rendered.
C6_NotifiedAfterRecompute ==
    ( /\ lastOp.kind \in {"paperOrientation", "paperFormat", "margins"}
      /\ lastOp.arg.type # "undefined"
      /\ ~lastOp.threw ) =>
        /\ Len(lastOp.notes) >= 1
        /\ lastOp.renders = (IF map_ = NoMap THEN 0 ELSE 1)
        /\ \A i \in 1..Len(lastOp.notes) :
               /\ WrittenIn(lastOp.notes[i], lastOp)
               /\ lastOp.notes[i].style = setElementSize(Cur).style
               /\ map_ # NoMap
                    => lastOp.notes[i].bbox = computeBbox(setElementSize(Cur))
               /\ lastOp.notes[i] = Snapshot(Cur)

C6_Witness ==
    /\ lastOp.kind = "margins"
    /\ lastOp.arg.type # "undefined"
    /\ ~lastOp.threw
    /\ map_ = "A"
    /\ Len(lastOp.notes) = 3

\* C7 (SpecCalc): assigning a four-field margins record raises no error and
\* stores 0 for each field below zero and the given value for every other.
C7_NegativeMarginsClamped ==
    ( /\ lastOp.kind = "margins"
      /\ lastOp.arg.type = "object"
      /\ DOMAIN lastOp.arg.val = Sides ) =>
        /\ ~lastOp.threw
        /\ DOMAIN margins = Sides
        /\ \A k \in Sides :
               margins[k] = IF lastOp.arg.val[k] < 0 THEN 0 ELSE lastOp.arg.val[k]

\* C8 (SpecCalc): assigning margins undefined or a record that lacks a field
\* changes nothing, raises nothing, renders nothing and notifies nobody.
C8_PartialMarginsIgnored ==
    [][ ( /\ lastOp'.kind = "margins"
          /\ \/ lastOp'.arg.type = "undefined"
             \/ DOMAIN lastOp'.arg.val # Sides )
        => /\ UNCHANGED OverlayState
           /\ ~lastOp'.threw
           /\ lastOp'.renders = 0
           /\ lastOp'.notes = <<>> ]_vars

\* r is the integer nearest to num / den (den > 0), the upper one of two
NearestTo(r, num, den) ==
    /\ 2 * num - den < 2 * den * r
    /\ 2 * den * r <= 2 * num + den

DotsAsClaimed(dots, mm, dpi) ==
    IF mm.nan THEN dots.nan
    ELSE ~dots.nan /\ NearestTo(dots.v, mm.v * dpi, INCH2MM)

DefaultMargins == [top |-> 2, bottom |-> 2, left |-> 2, right |-> 2]

\* C9 (SpecCalc): getPrintBoxSizeInDots(dpi) returns, for each dimension, the
\* integer nearest to the size in millimetres / 25.4 * dpi, with dpi = 192 when
\* omitted; A4, portrait, margins 2/2/2/2 is 170 x 257 mm and 1285 x 1943 dots.
C9_DotsFromMillimetres ==
    (lastOp.kind = "getPrintBoxSizeInDots" /\ ~lastOp.threw) =>
        LET mm == getPrintBoxSizeInMM(format, orientation, margins)
            dpi == IF lastOp.arg.type = "undefined" THEN 192
                   ELSE lastOp.arg.val
        IN  /\ DotsAsClaimed(lastOp.value.width, mm.width, dpi)
            /\ DotsAsClaimed(lastOp.value.height, mm.height, dpi)
            /\ ( /\ format = A4
                 /\ orientation = portrait
                 /\ margins = DefaultMargins
                 /\ lastOp.arg.type = "undefined" )
               => /\ mm.width = Num(1700)
                  /\ mm.height = Num(2570)
                  /\ lastOp.value.width = Num(1285)
                  /\ lastOp.value.height = Num(1943)

C9_Witness ==
    /\ lastOp.kind = "getPrintBoxSizeInDots"
    /\ lastOp.arg.type = "undefined"
    /\ format = A4
    /\ orientation = portrait
    /\ margins = DefaultMargins
    /\ lastOp.value.width = Num(1285)

\* the dots returned for the resolution dpi in the current configuration
DotsAt(dpi) == getPrintBoxSizeInDots(format, orientation, margins, NumArg(dpi))

\* C10 (SpecCalc), as claimed: each dimension returned for k * dpi is k times
\* the dimension returned for dpi, and both dimensions are 0 at dpi = 0.
C10_DotsLinearInDpi ==
    ( /\ lastOp.kind = "getPrintBoxSizeInDots"
      /\ lastOp.arg.type = "number"
      /\ ~lastOp.threw
      /\ DOMAIN margins = Sides ) =>
        /\ \A k \in 1..MaxFactor :
               /\ DotsAt(k * lastOp.arg.val).width.v = k * lastOp.value.width.v
               /\ DotsAt(k * lastOp.arg.val).height.v = k * lastOp.value.height.v
        /\ lastOp.arg.val = 0
             => lastOp.value.width.v = 0 /\ lastOp.value.height.v = 0

Abs(n) == IF n < 0 THEN -n ELSE n

\* C10 (SpecCalc), amended: each dimension returned for k * dpi differs from k
\* times the dimension returned for dpi by less than (k + 1) / 2, the two
\* roundings; both dimensions are 0 at dpi = 0.
C10_DotsLinearUpToRounding ==
    ( /\ lastOp.kind = "getPrintBoxSizeInDots"
      /\ lastOp.arg.type = "number"
      /\ ~lastOp.threw
      /\ DOMAIN margins = Sides ) =>
        /\ \A k \in 1..MaxFactor :
               /\ 2 * Abs(DotsAt(k * lastOp.arg.val).width.v
                          - k * lastOp.value.width.v) < k + 1
               /\ 2 * Abs(DotsAt(k * lastOp.arg.val).height.v
                          - k * lastOp.value.height.v) < k + 1
        /\ lastOp.arg.val = 0
             => lastOp.value.width.v = 0 /\ lastOp.value.height.v = 0

C10_Witness ==
    /\ lastOp.kind = "getPrintBoxSizeInDots"
    /\ lastOp.arg = NumArg(1)
    /\ lastOp.value.width = Num(7)
    /\ DotsAt(2).width = Num(13)

\* the box computeBbox yields in the current state
BoxNow == computeBbox(Cur)

\* C11 (Spec): the render callback that directly follows map.addControl(overlay),
\* the first since the overlay got that host, does not throw, registers a new
\* view-change listener on the host's current view and a new viewport-size
\* listener on the host, leaves the element laid out, stores the box computed
\* from the state it leaves and emits one change notification showing that box.
C11_FirstRenderAttaches ==
    [][ ( /\ lastOp.kind = "addControl"
          /\ lastOp'.kind = "render" )
        => /\ ~lastOp'.threw
           /\ _map' = map_'
           /\ \E l \in viewL' \ viewL :
                  l.map = map_' /\ l.view = view'[map_']
           /\ \E l \in sizeL' \ sizeL : l.map = map_'
           /\ style' = (setElementSize(Cur).style)'
           /\ bbox' = BoxNow'
           /\ Len(lastOp'.notes) = 1
           /\ lastOp'.notes[1].bbox = bbox' ]_vars

\* the overlay has run its attaching render callback on the map it is in
Attached == map_ \in Maps /\ _map = map_

\* C12 (SpecView): while the overlay is attached, after a pan or zoom of the view
\* its host currently has and after a change of the host's viewport size, the
\* stored box and the box the bbox getter returns are the box computeBbox yields
\* for the host's current view, viewport and configuration, and after a size
\* change the element has been laid out for the new viewport.
C12_BoxFollowsViewAndSize ==
    ( /\ Attached
      /\ \/ /\ lastOp.kind = "viewChange"
            /\ lastOp.arg.val = <<map_, view[map_]>>
         \/ /\ lastOp.kind = "resize"
            /\ lastOp.arg.val = map_ ) =>
        /\ ~lastOp.threw
        /\ lastOp.kind = "resize" => style = setElementSize(Cur).style
        /\ bbox = BoxNow
        /\ GetBbox(Cur).value = BoxNow

\* C13 (SpecCalc): in every state, from construction on, the stored format is a
\* known paper format with an entry in the paper-size table, the stored
\* orientation is, letter case aside, a known orientation, the stored margins
\* have their four fields, each >= 0, and getPrintBoxSizeInMM returns, without
\* throwing, numbers none of which exceeds the paper edge of its direction.
C13_StoredConfigurationValid ==
    /\ format \in {PAPER_FORMAT[k] : k \in DOMAIN PAPER_FORMAT}
    /\ format \in DOMAIN PAPER_SIZE
    /\ \E k \in DOMAIN ORIENTATION :
           toUpperCase(orientation) = toUpperCase(ORIENTATION[k])
    /\ DOMAIN margins = Sides
    /\ \A k \in Sides : margins[k] >= 0
    /\ LET mm == getPrintBoxSizeInMM(format, orientation, margins)
           short == PAPER_SIZE[format].short
           long == PAPER_SIZE[format].long
       IN  /\ ~mm.threw
           /\ ~mm.width.nan /\ ~mm.height.nan
           /\ \/ mm.width.v <= short /\ mm.height.v <= long
              \/ mm.width.v <= long /\ mm.height.v <= short

\* C14 (Spec): after every step that leaves the overlay attached, each
\* view-change and viewport-size listener of the overlay is on the map it is
\* attached to; while it is attached, a change of the view of another map
\* leaves the stored box as it was and emits no change notification, and the
\* removal of a control from another map leaves the overlay's reference to its
\* map in place.
C14_ListenersOnlyOnCurrentHost ==
    [][ /\ Attached' => /\ \A l \in viewL' : l.map = map_'
                        /\ \A l \in sizeL' : l.map = map_'
        /\ ( /\ lastOp'.kind = "viewChange"
             /\ Attached
             /\ lastOp'.arg.val[1] # map_ )
           => bbox' = bbox /\ lastOp'.notes = <<>>
        /\ ( /\ lastOp'.kind \in {"removeControl", "removeOther"}
             /\ Attached
             /\ lastOp'.arg.val # map_ )
           => _map' = _map ]_vars

\* the last operation ran the layout to its end for an overlay in a map
LayoutRan ==
    /\ map_ \in Maps
    /\ ~lastOp.threw
    /\ \/ /\ lastOp.kind \in {"paperOrientation", "paperFormat", "margins"}
          /\ lastOp.arg.type # "undefined"
       \/ /\ lastOp.kind = "resize"
          /\ \E l \in sizeL : l.map = map_
       \/ /\ lastOp.kind = "render"
          /\ lastOp.notes # <<>>

\* the dimension the layout is to fix: width exactly when the viewport's
\* width / height is strictly smaller than the paper's, which is short / long
\* for a portrait paper and long / short for a landscape one; a viewport of
\* height 0 has an infinite ratio
FixedAsClaimed ==
    LET w == size[map_][1]
        h == size[map_][2]
        short == PAPER_SIZE[format].short
        long == PAPER_SIZE[format].long
        isPortrait == toUpperCase(orientation) = toUpperCase(portrait)
    IN  IF h = 0 THEN "height"
        ELSE IF isPortrait
             THEN (IF w * long < short * h THEN "width" ELSE "height")
             ELSE (IF w * short < long * h THEN "width" ELSE "height")

\* C15 (SpecConfig): after every run of the layout for an overlay in a map, one
\* of the element's width and height is 80% and the other is unset, and the one
\* that is 80% is the width exactly when the viewport's ratio is strictly
\* smaller than the ratio of the paper in its orientation; with a viewport of
\* height 0 it is the height.
C15_RestrictingDimensionFixed ==
    LayoutRan =>
        /\ {style.width, style.height} = {"80%", ""}
        /\ style.width = "80%" <=> FixedAsClaimed = "width"
        /\ size[map_][2] = 0 => style.height = "80%"

====
